---- MODULE Spec2Model ----
(***************************************************************************)
(* Model of slack_retro_bot_to_airtable.py: a Slack slash-command webhook   *)
(* that stores retrospective items in an Airtable table, lists them, and    *)
(* marks them as reviewed in a background task.                             *)
(*                                                                          *)
(* Texts that the program parses (command text, slash command, item         *)
(* objects, categories) are sequences of one-character strings, so that     *)
(* strip / re.sub / split / lower / capitalize are computed, not assumed.   *)
(* Fixed reply messages that the program never parses are plain strings.    *)
(***************************************************************************)
EXTENDS Integers, Sequences, FiniteSets

\* ------------------------------------------------------------------ bounds
MaxItems == 2       \* records the store may hold
MaxInflight == 2    \* category requests between existence check and create
MaxSweeps == 1      \* background tasks alive at one time
MaxClock == 1       \* readings of datetime.utcnow() are 0..MaxClock
MaxFormatLen == 4   \* longest item list given directly to the formatter

\* ------------------------------------------------------------- characters
\* <<lower, upper>> for each letter the model uses.
CasePairs ==
    { <<"a","A">>, <<"b","B">>, <<"d","D">>, <<"e","E">>, <<"g","G">>,
      <<"h","H">>, <<"i","I">>, <<"k","K">>, <<"l","L">>, <<"n","N">>,
      <<"o","O">>, <<"p","P">>, <<"r","R">>, <<"s","S">>, <<"t","T">>,
      <<"w","W">>, <<"y","Y">> }

\* The characters in ASCII order (the order Python compares str by).
CharOrder ==
    << "\t", "\n", " ", "/", "?",
       "A","B","D","E","G","H","I","K","L","N","O","P","R","S","T","W","Y",
       "a","b","d","e","g","h","i","k","l","n","o","p","r","s","t","w","y",
       "*" >>

\* "*" stands for the bullet U+2022, which sorts after every ASCII character.
Bullet == "*"

Whitespace == {" ", "\t", "\n"}

\* str.lower() on one character.
LowerChar(c) ==
    IF \E p \in CasePairs : p[2] = c
    THEN (CHOOSE p \in CasePairs : p[2] = c)[1]
    ELSE c

\* str.upper() on one character.
UpperChar(c) ==
    IF \E p \in CasePairs : p[1] = c
    THEN (CHOOSE p \in CasePairs : p[1] = c)[2]
    ELSE c

\* str.lower()
Lower(s) == [i \in 1..Len(s) |-> LowerChar(s[i])]

\* Capitalize with the rest of the text left as typed.
CapitalizeFirstOnly(s) ==
    [i \in 1..Len(s) |-> IF i = 1 THEN UpperChar(s[i]) ELSE s[i]]

\* str.capitalize(): first character upper-cased, the rest lower-cased.
Capitalize(s) ==
    [i \in 1..Len(s) |-> IF i = 1 THEN UpperChar(s[i]) ELSE LowerChar(s[i])]

RECURSIVE LStrip(_)
LStrip(s) ==
    IF s # <<>> /\ Head(s) \in Whitespace THEN LStrip(Tail(s)) ELSE s

RECURSIVE RStrip(_)
RStrip(s) ==
    IF s # <<>> /\ s[Len(s)] \in Whitespace
    THEN RStrip(SubSeq(s, 1, Len(s) - 1))
    ELSE s

\* str.strip()
Strip(s) == RStrip(LStrip(s))

\* re.sub(' +', ' ', s): every run of spaces becomes one space.
RECURSIVE CollapseSpaces(_)
CollapseSpaces(s) ==
    IF Len(s) < 2 THEN s
    ELSE IF s[1] = " " /\ s[2] = " " THEN CollapseSpaces(Tail(s))
    ELSE <<s[1]>> \o CollapseSpaces(Tail(s))

\* s.split(' '): the pieces between single spaces (empty pieces kept).
RECURSIVE Split(_)
Split(s) ==
    IF \A i \in 1..Len(s) : s[i] # " " THEN <<s>>
    ELSE LET k == CHOOSE i \in 1..Len(s) :
                      s[i] = " " /\ \A j \in 1..(i - 1) : s[j] # " "
         IN  <<SubSeq(s, 1, k - 1)>> \o Split(SubSeq(s, k + 1, Len(s)))

\* ' '.join(parts)
RECURSIVE Join(_)
Join(parts) ==
    IF parts = <<>> THEN <<>>
    ELSE IF Len(parts) = 1 THEN parts[1]
    ELSE parts[1] \o <<" ">> \o Join(Tail(parts))

\* --------------------------------------------------------------- keywords
good == <<"g","o","o","d">>
bad == <<"b","a","d">>
try == <<"t","r","y">>
new == <<"n","e","w">>
list == <<"l","i","s","t">>
help == <<"h","e","l","p">>
qmark == <<"?">>

GOOD_CMDS == <<good>>
BAD_CMDS == <<bad>>
TRY_CMDS == <<try>>
CATEGORY_CMDS == GOOD_CMDS \o BAD_CMDS \o TRY_CMDS
NEW_CMDS == <<new>>
LIST_CMDS == <<list>>
HELP_CMDS == <<help, qmark>>
ALL_CMDS == CATEGORY_CMDS \o NEW_CMDS \o LIST_CMDS \o HELP_CMDS

\* x in tuple
In(x, tuple) == \E i \in 1..Len(tuple) : tuple[i] = x

SLACK_RETRO_TOKEN == "secret"
EnvVars == {"SLACK_RETRO_TOKEN", "AIRTABLE_RETRO_BASE_ID", "AIRTABLE_RETRO_API_KEY"}

\* _get_command_action_and_params
GetCommandActionAndParams(command_text) ==
    LET command_components == Split(command_text)
    IN  [action |-> Lower(command_components[1]),
         params |-> Join(Tail(command_components))]

\* ------------------------------------------------------------- formatter
CharIndex(c) == CHOOSE i \in 1..Len(CharOrder) : CharOrder[i] = c

\* a < b as Python compares str: lexicographic by character.
RECURSIVE StrLess(_, _)
StrLess(a, b) ==
    IF b = <<>> THEN FALSE
    ELSE IF a = <<>> THEN TRUE
    ELSE IF a[1] # b[1] THEN CharIndex(a[1]) < CharIndex(b[1])
    ELSE StrLess(Tail(a), Tail(b))

CategoryOf(item) == item.fields.Category

\* The place of items[i] in the sort that puts equal keys in reverse order.
RankReversing(items, i) ==
    Cardinality({ j \in 1..Len(items) :
                      StrLess(CategoryOf(items[j]), CategoryOf(items[i])) })
    + Cardinality({ j \in i..Len(items) : CategoryOf(items[j]) = CategoryOf(items[i]) })

\* The place of items[i] in the sorted list: after every item of a smaller
\* key, and after the items of its own key that come before it (sorted() is
\* stable).
Rank(items, i) ==
    Cardinality({ j \in 1..Len(items) :
                      StrLess(CategoryOf(items[j]), CategoryOf(items[i])) })
    + Cardinality({ j \in 1..i : CategoryOf(items[j]) = CategoryOf(items[i]) })

\* sorted(retrospective_items, key=category)
SortedByCategory(items) ==
    [p \in 1..Len(items) |->
        items[CHOOSE i \in 1..Len(items) : Rank(items, i) = p]]

\* itertools.groupby(items, key=category): one group per run of equal keys,
\* in the order of the runs.
GroupByCategory(items) ==
    LET starts == { i \in 1..Len(items) :
                        i = 1 \/ CategoryOf(items[i]) # CategoryOf(items[i - 1]) }
        start(k) == CHOOSE i \in starts : Cardinality({ j \in starts : j <= i }) = k
        end(k) == IF k = Cardinality(starts) THEN Len(items) ELSE start(k + 1) - 1
    IN  [k \in 1..Cardinality(starts) |->
            [category |-> CategoryOf(items[start(k)]),
             items |-> SubSeq(items, start(k), end(k))]]

\* '\n\n'.join(lines)
RECURSIVE JoinLines(_)
JoinLines(lines) ==
    IF lines = <<>> THEN <<>>
    ELSE IF Len(lines) = 1 THEN lines[1]
    ELSE lines[1] \o <<"\n", "\n">> \o JoinLines(Tail(lines))

\* colors_by_category[category]; any other category raises KeyError.
ColorsByCategory(category) ==
    CASE category = good -> "good"
      [] category = bad -> "danger"
      [] category = try -> "warning"

\* One attachment: title, bulleted text and colour of a group.
Attachment(group) ==
    [title |-> Capitalize(group.category),
     text |-> JoinLines([i \in 1..Len(group.items) |->
                  <<Bullet, " ">> \o group.items[i].fields.Object]),
     color |-> ColorsByCategory(group.category)]

\* _get_retrospective_items_attachments. (Each stage is bound once, as a
\* value, before the next stage reads it.)
GetRetrospectiveItemsAttachments(retrospective_items) ==
    CHOOSE attachments \in
        { [g \in 1..Len(items_by_category) |-> Attachment(items_by_category[g])] :
            items_by_category \in
                { GroupByCategory(sorted_items) :
                    sorted_items \in
                        { SortedByCategory(items) : items \in {retrospective_items} } } } :
        TRUE

\* ------------------------------------------------------------ the store
\* No 'Reviewed At' field: the value a record has until a sweep sets one.
NotReviewed == -1

\* The 'Current View' of the Items table: the records not yet reviewed.
CurrentView(records) ==
    SelectSeq(records, LAMBDA r : r.fields.ReviewedAt = NotReviewed)

\* FilterByFormula asking for the object in lower case.
FilterByFormulaLowered(records, category, item_object) ==
    SelectSeq(records, LAMBDA r : /\ r.fields.Category = category
                                  /\ r.fields.Object = Lower(item_object))

\* filter_by_formula='AND(Category = "{}", Object = "{}")'
FilterByFormula(records, category, item_object) ==
    SelectSeq(records, LAMBDA r : /\ r.fields.Category = category
                                  /\ r.fields.Object = item_object)

\* ------------------------------------------------------------- messages
BOT_NAME == "Retrospective Bot"
MsgSetup == "Need to setup the following AWS Lambda function env variables:\n{}"
MsgReserved == "Sorry, but *Retrospective Bot* can't save *{}* because it's a reserved term."
MsgAlreadyAdded == "This retrospective item has already been added!"
MsgUnableToSave == "Sorry, but *Retrospective Bot* was unable to save the retrospective item."
MsgNewItem == "New retrospective item:"
MsgNoItems == "No retrospective items yet."
MsgItems == "Retrospective items:"
MsgOops == "Oops, did you mean \"/retro good {}\"?"
MsgMarking == "Marking all current retrospective items as reviewed..."
MsgHelp == "*{command} good <item>* to save an item in the \"good\" list\n*{command} bad <item>* to save an item in the \"bad\" list\n*{command} try <item>* to save an item in the \"try\" list\n*{command} list* to see the different lists saved for the current sprint\n*{command} new* to start a fresh list for the new scrum sprint\n*{command} help* to see this message"
MsgAlreadyReviewed == "All retrospective were already marked as reviewed!"
MsgMarkedAsReviewed == "All retrospective items marked as reviewed!"
MsgRemaining == "\nHere are the remaining 'try' items to complete:"

\* A message: its template and the text formatted into it (<<>> when none).
Text(msg, arg) == [msg |-> msg, arg |-> arg]

\* A handler's return value: a str, or a (text, attachments) pair.
StrResponse(text) == [isStr |-> TRUE, text |-> text, attachments |-> <<>>]
PairResponse(text, attachments) ==
    [isStr |-> FALSE, text |-> text, attachments |-> attachments]

\* FormatJsonResponse with every reply sent to the channel.
FormatJsonResponseBroadcast(response, in_channel) ==
    [status |-> 200,
     mimetype |-> "application/json",
     response_type |-> "in_channel",
     text |-> response.text,
     attachments |-> IF response.isStr THEN <<>> ELSE response.attachments]

\* _format_json_response
FormatJsonResponse(response, in_channel) ==
    LET text == response.text
        attachments == IF response.isStr THEN <<>> ELSE response.attachments
    IN  [status |-> 200,
         mimetype |-> "application/json",
         response_type |-> IF in_channel THEN "in_channel" ELSE "ephemeral",
         text |-> text,
         attachments |-> IF attachments # <<>> THEN attachments ELSE <<>>]

\* The list _MISSING_ENV_VARIABLES, in the order the module appends to it.
MissingList(m) ==
    (IF "SLACK_RETRO_TOKEN" \in m THEN <<"SLACK_RETRO_TOKEN">> ELSE <<>>)
    \o (IF "AIRTABLE_RETRO_BASE_ID" \in m THEN <<"AIRTABLE_RETRO_BASE_ID">> ELSE <<>>)
    \o (IF "AIRTABLE_RETRO_API_KEY" \in m THEN <<"AIRTABLE_RETRO_API_KEY">> ELSE <<>>)

\* return _STEPS_TO_FINISH_SETUP, 200
SetupResponse(m) ==
    [status |-> 200, mimetype |-> "text/html", response_type |-> "none",
     text |-> Text(MsgSetup, MissingList(m)), attachments |-> <<>>]

\* abort(401)
AbortResponse ==
    [status |-> 401, mimetype |-> "text/html", response_type |-> "none",
     text |-> Text("Unauthorized", <<>>), attachments |-> <<>>]

\* Lines 80-97 of handle_slack_notification: the action and its parameters.
ParseCommand(slash_command, text) ==
    LET full_text == CollapseSpaces(Strip(text))
        command_text == full_text
        parsed == IF In(slash_command, CATEGORY_CMDS)
                  THEN [action |-> slash_command, params |-> command_text]
                  ELSE GetCommandActionAndParams(command_text)
    IN  [action |-> IF In(parsed.action, ALL_CMDS) THEN parsed.action ELSE HELP_CMDS[1],
         params |-> parsed.params,
         command_text |-> command_text]

\* Authorized with the comparison left out.
AuthorizedAlways(token) == TRUE

\* IsReservedTerm without the lower-casing.
IsReservedTermExact(item_object) == In(item_object, ALL_CMDS)

\* if slack_notification['token'] != _SLACK_RETRO_TOKEN: abort(401)
Authorized(token) == token = SLACK_RETRO_TOKEN

\* if item_object.lower() in _ALL_CMDS
IsReservedTerm(item_object) == In(Lower(item_object), ALL_CMDS)

\* ------------------------------------------------------------------ state
VARIABLES
    missing,     \* _MISSING_ENV_VARIABLES, fixed when the module is loaded
    store,       \* the Items table: records in creation order, id = position
    now,         \* the reading datetime.utcnow() gives
    pending,     \* category requests between their existence check and the
                 \* answer to their create call
    sweeps,      \* the background tasks, by the response_url they post to (a
                 \* number stands for the fresh URL of the request that started
                 \* the task, and is used again once that task has ended)
    last,        \* the latest request event: its input, store calls and reply
    swept,       \* a background task has stepped since the latest request event
    overlap,     \* two requests for one (category, object) were in flight together
    fmtIn,       \* item list given directly to the formatter
    fmtOut,      \* the attachments it returned
    fmtDone      \* whether it has been applied

vars == <<missing, store, now, pending, sweeps, last, swept, overlap,
          fmtIn, fmtOut, fmtDone>>

NoAction == <<>>
NoCategory == <<>>
NoPending == [busy |-> FALSE, pc |-> "idle", category |-> <<>>, object |-> <<>>,
              params |-> <<>>, user_name |-> "", created_at |-> NotReviewed]
IdleSweep == [pc |-> "idle", fetched |-> <<>>, idx |-> 1, ts |-> NotReviewed,
              remaining |-> <<>>, calls |-> <<>>, posts |-> <<>>]
NoRequest == [done |-> TRUE, token |-> "", action |-> NoAction, params |-> <<>>,
              category |-> NoCategory, object |-> <<>>, calls |-> <<>>,
              spawned |-> FALSE, status |-> 0, mimetype |-> "", response_type |-> "none",
              text |-> Text("", <<>>), attachments |-> <<>>]

SweepIds == 1..MaxSweeps
Slots == 1..MaxInflight

\* The event record of a request: what it was and what was returned for it.
Event(done, token, cmd, category, object, calls, spawned, resp) ==
    [done |-> done, token |-> token, action |-> cmd.action, params |-> cmd.params,
     category |-> category, object |-> object, calls |-> calls, spawned |-> spawned,
     status |-> resp.status, mimetype |-> resp.mimetype,
     response_type |-> resp.response_type, text |-> resp.text,
     attachments |-> resp.attachments]

\* The reply is not written yet: the handler is between two store calls.
NoResponseYet ==
    [status |-> 0, mimetype |-> "", response_type |-> "none",
     text |-> Text("", <<>>), attachments |-> <<>>]

InitProgram ==
    /\ store = <<>>
    /\ now = 0
    /\ pending = [s \in Slots |-> NoPending]
    /\ sweeps = [u \in SweepIds |-> IdleSweep]
    /\ last = NoRequest
    /\ swept = FALSE
    /\ overlap = FALSE

Init ==
    /\ missing \in SUBSET EnvVars
    /\ InitProgram
    /\ fmtIn = <<>>
    /\ fmtOut = <<>>
    /\ fmtDone = FALSE

\* ---------------------------------------------------------------- requests
\* A request that returns at once: nothing but the event record changes.
Return(ev) ==
    /\ last' = ev
    /\ UNCHANGED <<store, pending, sweeps, overlap>>

\* _add_retrospective_item_and_get_response, up to the moment the existence
\* check (the get) takes effect in the store.
AddRetrospectiveItemCheck(token, cmd, category, item_object, user_name) ==
    IF IsReservedTerm(item_object)
    THEN Return(Event(TRUE, token, cmd, category, item_object, <<>>, FALSE,
             FormatJsonResponse(StrResponse(Text(MsgReserved, item_object)), TRUE)))
    ELSE LET object == Capitalize(item_object)
             cat == Lower(category)
             existing_item == FilterByFormula(CurrentView(store), cat, object)
         IN  IF existing_item # <<>>
             THEN Return(Event(TRUE, token, cmd, cat, object, <<"get">>, FALSE,
                      FormatJsonResponse(StrResponse(Text(MsgAlreadyAdded, <<>>)), TRUE)))
             ELSE \E slot \in Slots :
                    /\ ~pending[slot].busy
                    /\ \A t \in 1..(slot - 1) : pending[t].busy
                    /\ Len(store) + Cardinality({t \in Slots : pending[t].busy}) < MaxItems
                    /\ pending' = [pending EXCEPT ![slot] =
                           [busy |-> TRUE, pc |-> "checked", category |-> cat,
                            object |-> object, params |-> item_object,
                            user_name |-> user_name, created_at |-> NotReviewed]]
                    /\ overlap' = (overlap \/ \E t \in Slots :
                                      /\ pending[t].busy
                                      /\ pending[t].category = cat
                                      /\ pending[t].object = object)
                    /\ last' = Event(FALSE, token, cmd, cat, object, <<"get">>, FALSE,
                                     NoResponseYet)
                    /\ UNCHANGED <<store, sweeps>>

\* _get_retrospective_items_response
GetRetrospectiveItemsResponse ==
    LET items == CurrentView(store)
    IN  IF items = <<>>
        THEN StrResponse(Text(MsgNoItems, <<>>))
        ELSE PairResponse(Text(MsgItems, <<>>), GetRetrospectiveItemsAttachments(items))

\* handle_slack_notification
HandleRequest(token, user_name, slash_command, text, response_url) ==
    /\ swept' = FALSE
    /\ UNCHANGED <<missing, now, fmtIn, fmtOut, fmtDone>>
    /\ IF missing # {}
       THEN Return(Event(TRUE, token, [action |-> NoAction, params |-> <<>>],
                         NoCategory, <<>>, <<>>, FALSE, SetupResponse(missing)))
       ELSE IF ~Authorized(token)
       THEN Return(Event(TRUE, token, [action |-> NoAction, params |-> <<>>],
                         NoCategory, <<>>, <<>>, FALSE, AbortResponse))
       ELSE LET cmd == ParseCommand(slash_command, text)
            IN  IF In(cmd.action, CATEGORY_CMDS)
                THEN AddRetrospectiveItemCheck(token, cmd, cmd.action, cmd.params, user_name)
                ELSE IF In(cmd.action, LIST_CMDS)
                THEN Return(Event(TRUE, token, cmd, NoCategory, <<>>, <<"get">>, FALSE,
                         FormatJsonResponse(GetRetrospectiveItemsResponse, TRUE)))
                ELSE IF In(cmd.action, NEW_CMDS)
                THEN IF cmd.params # <<>>
                     THEN Return(Event(TRUE, token, cmd, NoCategory, <<>>, <<>>, FALSE,
                              FormatJsonResponse(StrResponse(Text(MsgOops, cmd.params)), TRUE)))
                     ELSE \* _mark_retrospective_items_as_reviewed: start the task
                          /\ sweeps[response_url].pc \in {"idle", "done"}
                          /\ sweeps' = [sweeps EXCEPT ![response_url] =
                                            [IdleSweep EXCEPT !.pc = "fetch"]]
                          /\ last' = Event(TRUE, token, cmd, NoCategory, <<>>, <<>>, TRUE,
                                 FormatJsonResponse(StrResponse(Text(MsgMarking, <<>>)), TRUE))
                          /\ UNCHANGED <<store, pending, overlap>>
                ELSE IF In(cmd.action, HELP_CMDS) \/ cmd.command_text = <<>>
                        \/ cmd.command_text = <<" ">>
                THEN Return(Event(TRUE, token, cmd, NoCategory, <<>>, <<>>, FALSE,
                         FormatJsonResponse(StrResponse(Text(MsgHelp, slash_command)), FALSE)))
                ELSE \* the view function returns None
                     Return(Event(TRUE, token, cmd, NoCategory, <<>>, <<>>, FALSE,
                         [status |-> 500, mimetype |-> "text/html", response_type |-> "none",
                          text |-> Text("Internal Server Error", <<>>), attachments |-> <<>>]))

\* The answer of the existence check is back and the arguments of create
\* are built: datetime.utcnow() is read here, before the call is sent.
ReadCreatedAt(slot) ==
    /\ pending[slot].busy
    /\ pending[slot].pc = "checked"
    /\ pending' = [pending EXCEPT ![slot] =
                      [@ EXCEPT !.pc = "create", !.created_at = now]]
    /\ UNCHANGED <<missing, store, now, sweeps, last, swept, overlap,
                   fmtIn, fmtOut, fmtDone>>

\* _add_retrospective_item_and_get_response, from the moment the create call
\* takes effect in the store to the reply.
CreateItem(slot, ok) ==
    /\ pending[slot].busy
    /\ pending[slot].pc = "create"
    /\ LET p == pending[slot]
           cmd == [action |-> p.category, params |-> p.params]
           item_airtable_record ==
               [id |-> Len(store) + 1,
                fields |-> [Category |-> Lower(p.category), Object |-> p.object,
                            Creator |-> p.user_name, CreatedAt |-> p.created_at,
                            ReviewedAt |-> NotReviewed]]
       IN  IF ok
           THEN /\ store' = Append(store, item_airtable_record)
                /\ last' = Event(TRUE, SLACK_RETRO_TOKEN, cmd, p.category, p.object,
                       <<"get", "create">>, FALSE,
                       FormatJsonResponse(PairResponse(Text(MsgNewItem, <<>>),
                           GetRetrospectiveItemsAttachments(<<item_airtable_record>>)), TRUE))
           ELSE /\ store' = store
                /\ last' = Event(TRUE, SLACK_RETRO_TOKEN, cmd, p.category, p.object,
                       <<"get", "create">>, FALSE,
                       FormatJsonResponse(StrResponse(Text(MsgUnableToSave, <<>>)), TRUE))
    /\ pending' = [pending EXCEPT ![slot] = NoPending]
    /\ swept' = FALSE
    /\ UNCHANGED <<missing, now, sweeps, overlap, fmtIn, fmtOut, fmtDone>>

\* --------------------------------------------------- the background task
SweepFrame == UNCHANGED <<missing, now, pending, last, overlap,
                          fmtIn, fmtOut, fmtDone>>

\* The follow-up posted when the view was empty at the start.
AlreadyReviewedFollowUp ==
    [response_type |-> "in_channel", text |-> MsgAlreadyReviewed]

\* _async_mark_retrospective_items_as_reviewed: the first get takes effect
\* in the store; the task holds the records of the view at that moment.
SweepFetch(u) ==
    /\ sweeps[u].pc = "fetch"
    /\ LET items == CurrentView(store)
       IN  sweeps' = [sweeps EXCEPT ![u] =
               [@ EXCEPT !.pc = "fetched", !.calls = <<"get">>,
                         !.fetched = [i \in 1..Len(items) |-> items[i].id]]]
    /\ swept' = TRUE
    /\ store' = store
    /\ SweepFrame

\* SweepAfterFetch without the return after the first follow-up: the task
\* goes on to the loop (over nothing) and to the second get.
SweepAfterFetchFallThrough(u) ==
    /\ sweeps[u].pc = "fetched"
    /\ sweeps' = [sweeps EXCEPT ![u] =
           [@ EXCEPT !.pc = IF sweeps[u].fetched = <<>> THEN "refetch" ELSE "update",
                     !.posts = IF sweeps[u].fetched = <<>> THEN <<AlreadyReviewedFollowUp>>
                               ELSE <<>>,
                     !.idx = 1, !.ts = now]]
    /\ swept' = TRUE
    /\ store' = store
    /\ SweepFrame

\* The answer of the first get is back: with no items the follow-up is
\* posted and the task returns; otherwise datetime.utcnow() is read for
\* new_params.
SweepAfterFetch(u) ==
    /\ sweeps[u].pc = "fetched"
    /\ IF sweeps[u].fetched = <<>>
       THEN sweeps' = [sweeps EXCEPT ![u] =
                [@ EXCEPT !.pc = "done", !.posts = <<AlreadyReviewedFollowUp>>]]
       ELSE sweeps' = [sweeps EXCEPT ![u] =
                [@ EXCEPT !.pc = "update", !.idx = 1, !.ts = now]]
    /\ swept' = TRUE
    /\ store' = store
    /\ SweepFrame

\* UpdateRecord stamping the creation time as well.
UpdateRecordStamping(record, ts) ==
    [record EXCEPT !.fields.ReviewedAt = ts, !.fields.CreatedAt = ts]

\* What update(table, id, new_params) does to the record: it sets the
\* fields of new_params, here 'Reviewed At' alone.
UpdateRecord(record, ts) == [record EXCEPT !.fields.ReviewedAt = ts]

\* One turn of the loop: update(table, item id, {'Reviewed At': ...}). The
\* store may refuse the update; the result is not looked at.
SweepUpdate(u, ok) ==
    /\ sweeps[u].pc = "update"
    /\ LET sw == sweeps[u]
           id == sw.fetched[sw.idx]
       IN  /\ store' = IF ok THEN [store EXCEPT ![id] = UpdateRecord(store[id], sw.ts)]
                             ELSE store
           /\ sweeps' = [sweeps EXCEPT ![u] =
                  [@ EXCEPT !.idx = sw.idx + 1,
                            !.calls = Append(sw.calls, "update"),
                            !.pc = IF sw.idx = Len(sw.fetched) THEN "refetch"
                                   ELSE "update"]]
    /\ swept' = TRUE
    /\ SweepFrame

\* 'text': A + B if attachments else ''  -- the conditional takes the whole sum.
FollowUpText(attachments) ==
    IF attachments # <<>> THEN MsgMarkedAsReviewed \o MsgRemaining ELSE ""

\* The second get takes effect in the store; the task holds the records of
\* the view at that moment.
SweepRefetch(u) ==
    /\ sweeps[u].pc = "refetch"
    /\ LET remaining_items == CurrentView(store)
       IN  sweeps' = [sweeps EXCEPT ![u] =
               [@ EXCEPT !.pc = "post",
                         !.remaining = [i \in 1..Len(remaining_items) |->
                                           remaining_items[i].id],
                         !.calls = Append(@, "get")]]
    /\ swept' = TRUE
    /\ store' = store
    /\ SweepFrame

\* The records the second get returned. The task holds them by id: the
\* fields the formatter reads (Category, Object) are never written again.
RemainingItems(u) ==
    [i \in 1..Len(sweeps[u].remaining) |-> store[sweeps[u].remaining[i]]]

\* SweepPost posting only when something remains.
SweepPostIfAny(u) ==
    /\ sweeps[u].pc = "post"
    /\ LET attachments == GetRetrospectiveItemsAttachments(RemainingItems(u))
       IN  sweeps' = [sweeps EXCEPT ![u] =
               [@ EXCEPT !.pc = "done",
                         !.posts = IF attachments = <<>> THEN @
                                   ELSE Append(@, [response_type |-> "in_channel",
                                                   text |-> FollowUpText(attachments),
                                                   attachments |-> attachments])]]
    /\ swept' = TRUE
    /\ store' = store
    /\ SweepFrame

\* The answer of the second get is back: the attachments are built and the
\* follow-up is posted to response_url.
SweepPost(u) ==
    /\ sweeps[u].pc = "post"
    /\ LET attachments == GetRetrospectiveItemsAttachments(RemainingItems(u))
       IN  sweeps' = [sweeps EXCEPT ![u] =
               [@ EXCEPT !.pc = "done",
                         !.posts = Append(@, [response_type |-> "in_channel",
                                              text |-> FollowUpText(attachments),
                                              attachments |-> attachments])]]
    /\ swept' = TRUE
    /\ store' = store
    /\ SweepFrame

\* Time passes.
Tick ==
    /\ now < MaxClock
    /\ now' = now + 1
    /\ UNCHANGED <<missing, store, pending, sweeps, last, swept, overlap,
                   fmtIn, fmtOut, fmtDone>>

\* ------------------------------------------------------------------ inputs
retro == <<"/","r","e","t","r","o">>
ok == <<"o","k">>
OK == <<"O","K">>

Tokens == {SLACK_RETRO_TOKEN, "wrong"}

\* Every letter-casing of a word.
Casings(word) ==
    { [i \in 1..Len(word) |-> IF i \in S THEN UpperChar(word[i]) ELSE word[i]] :
          S \in SUBSET (1..Len(word)) }

KeywordCasings == UNION { Casings(ALL_CMDS[i]) : i \in 1..Len(ALL_CMDS) }

\* "<action> <params>" as typed after /retro
Typed(action, params) == action \o <<" ">> \o params

\* <<slash command, text>> pairs of the main specification: one request
\* for each kind of reply, and the same item in two spellings.
Requests ==
    {retro} \X { help, list, new, Typed(new, ok),
                 Typed(good, ok), Typed(good, OK), Typed(bad, ok),
                 Typed(try, Capitalize(list)) }

\* <<token, user name, <<slash command, text>>, response_url>>
Inputs ==
    ({SLACK_RETRO_TOKEN} \X {"alice"} \X Requests \X SweepIds)
    \cup ({SLACK_RETRO_TOKEN} \X {"bob"} \X {<<retro, Typed(good, ok)>>} \X {1})
    \cup ({"wrong"} \X {"alice"} \X {<<retro, Typed(good, ok)>>} \X {1})

Next ==
    \/ \E i \in Inputs : HandleRequest(i[1], i[2], i[3][1], i[3][2], i[4])
    \/ \E slot \in Slots : ReadCreatedAt(slot)
    \/ \E slot \in Slots, created \in BOOLEAN : CreateItem(slot, created)
    \/ \E u \in SweepIds : SweepFetch(u)
    \/ \E u \in SweepIds : SweepAfterFetch(u)
    \/ \E u \in SweepIds, updated \in BOOLEAN : SweepUpdate(u, updated)
    \/ \E u \in SweepIds : SweepRefetch(u)
    \/ \E u \in SweepIds : SweepPost(u)
    \/ Tick

Spec == Init /\ [][Next]_vars

\* ------------------------------------------- the background task, fairly
\* The task started by zappa's @task runs to its end once started: every
\* step of it that stays enabled is eventually taken.
SweepFairness ==
    \A u \in SweepIds :
        /\ WF_vars(SweepFetch(u))
        /\ WF_vars(SweepAfterFetch(u))
        /\ WF_vars(\E updated \in BOOLEAN : SweepUpdate(u, updated))
        /\ WF_vars(SweepRefetch(u))
        /\ WF_vars(SweepPost(u))

LiveRequests == {retro} \X { new, list, Typed(good, ok), Typed(bad, ok) }

NextLive ==
    \/ \E r \in LiveRequests, u \in SweepIds :
          HandleRequest(SLACK_RETRO_TOKEN, "alice", r[1], r[2], u)
    \/ \E slot \in Slots : ReadCreatedAt(slot)
    \/ \E slot \in Slots, created \in BOOLEAN : CreateItem(slot, created)
    \/ \E u \in SweepIds : SweepFetch(u)
    \/ \E u \in SweepIds : SweepAfterFetch(u)
    \/ \E u \in SweepIds, updated \in BOOLEAN : SweepUpdate(u, updated)
    \/ \E u \in SweepIds : SweepRefetch(u)
    \/ \E u \in SweepIds : SweepPost(u)

InitLive == Init /\ missing = {}

FairSpec == InitLive /\ [][NextLive]_vars /\ SweepFairness

\* ------------------------------------------- the request path, every input
\* Every spelling the parser has to handle: empty and whitespace-only text,
\* padding, runs of spaces, tabs, upper case, unknown words, and the category
\* given as the slash command itself.
DispatchRequests ==
    {retro} \X { <<>>, <<" ">>, <<" ", " ">>, <<"\t">>, help, qmark,
                 Capitalize(help), ok, Typed(ok, list), Typed(good, <<"\t">>) \o ok,
                 list, <<" ">> \o Capitalize(list) \o <<" ", " ">>, Typed(list, ok),
                 new, Typed(new, ok), Typed(new, <<" ">> \o good),
                 Typed(good, ok),
                 <<" ">> \o Typed(Capitalize(good), <<" ">> \o OK) \o <<" ">>,
                 Typed(bad, ok), Typed(try, Typed(ok, <<" ">> \o OK)),
                 Typed(try, Capitalize(list)), Typed(good, new) }
    \cup {good} \X { ok, <<>>, Capitalize(help) }
    \cup {Capitalize(good), <<"/">> \o good} \X { ok, Typed(bad, ok) }

NextDispatch ==
    \/ \E token \in Tokens, r \in DispatchRequests :
          HandleRequest(token, "alice", r[1], r[2], 1)
    \/ \E slot \in Slots : ReadCreatedAt(slot)
    \/ \E slot \in Slots, created \in BOOLEAN : CreateItem(slot, created)

SpecDispatch == Init /\ [][NextDispatch]_vars

\* ----------------------------------------- reserved terms, every spelling
\* Category requests whose object is a keyword in any letter-casing, given
\* as "/retro <category> <object>" and as "/<category> <object>", next to
\* requests that do store an item.
ReservedRequests ==
    { <<retro, Typed(CATEGORY_CMDS[c], k)>> : c \in 1..3, k \in KeywordCasings }
    \cup { <<CATEGORY_CMDS[c], k>> : c \in 1..3, k \in KeywordCasings }
    \cup { <<retro, Typed(good, ok)>>, <<retro, list>> }

NextReserved ==
    \/ \E r \in ReservedRequests :
          HandleRequest(SLACK_RETRO_TOKEN, "alice", r[1], r[2], 1)
    \/ \E slot \in Slots : ReadCreatedAt(slot)
    \/ \E slot \in Slots, created \in BOOLEAN : CreateItem(slot, created)

InitReserved == Init /\ missing = {}

SpecReserved == InitReserved /\ [][NextReserved]_vars

\* ------------------------------------------------ the formatter by itself
FormatCategories == {good, bad, try}
FormatObjects == {Capitalize(ok), <<"A", " ", "b">>}

\* Records as the store returns them; the id of a record is its position.
FormatInputs ==
    UNION { { [i \in 1..n |->
                  [id |-> i,
                   fields |-> [Category |-> f[i][1], Object |-> f[i][2],
                               Creator |-> "alice", CreatedAt |-> 0,
                               ReviewedAt |-> NotReviewed]]] :
              f \in [1..n -> FormatCategories \X FormatObjects] } :
            n \in 0..MaxFormatLen }

InitFormat ==
    /\ missing = {}
    /\ InitProgram
    /\ fmtIn \in FormatInputs
    /\ fmtOut = <<>>
    /\ fmtDone = FALSE

ApplyFormatter ==
    /\ ~fmtDone
    /\ fmtOut' = GetRetrospectiveItemsAttachments(fmtIn)
    /\ fmtDone' = TRUE
    /\ UNCHANGED <<missing, store, now, pending, sweeps, last, swept, overlap, fmtIn>>

SpecFormat == InitFormat /\ [][ApplyFormatter]_vars

\* ================================================================== claims
Unreviewed(i) == store[i].fields.ReviewedAt = NotReviewed

SamePair(i, j) ==
    /\ store[i].fields.Category = store[j].fields.Category
    /\ store[i].fields.Object = store[j].fields.Object

UniqueUnreviewed ==
    \A i, j \in 1..Len(store) :
        (i < j /\ Unreviewed(i) /\ Unreviewed(j)) => ~SamePair(i, j)

\* C1 as stated: in every reachable state, whatever the interleaving of
\* requests and sweeps, no two unreviewed items have the same (category,
\* object) pair.
C1_UniqueUnderAnyInterleaving == UniqueUnreviewed

\* C1, amended: as long as no request ran its existence check while another
\* request for the same (category, object) pair was between its existence
\* check and its create call, no two unreviewed items have the same pair;
\* sweeps may interleave freely.
C1_UniqueWithoutOverlap == ~overlap => UniqueUnreviewed

C1_Witness ==
    /\ ~overlap
    /\ last.done /\ last.text.msg = MsgAlreadyAdded
    /\ Len(store) = 2 /\ Unreviewed(1) /\ Unreviewed(2)
    /\ \E u \in SweepIds : sweeps[u].pc = "done"

JsonMessages ==
    { MsgReserved, MsgAlreadyAdded, MsgUnableToSave, MsgNewItem, MsgNoItems,
      MsgItems, MsgOops, MsgMarking, MsgHelp }

\* C2: with configuration present, the reply to an authorized request is
\* 'ephemeral' exactly when the dispatched action is help (the usage
\* message), and 'in_channel' for every other reply: item saved, reserved
\* term, duplicate, write failure, list, and new with or without parameter.
C2_EphemeralIffHelp ==
    (missing = {} /\ last.status # 0 /\ last.token = SLACK_RETRO_TOKEN) =>
        /\ last.status = 200
        /\ last.text.msg \in JsonMessages
        /\ last.response_type = (IF In(last.action, HELP_CMDS) THEN "ephemeral"
                                 ELSE "in_channel")
        /\ (last.text.msg = MsgHelp) = In(last.action, HELP_CMDS)

C2_Witness ==
    /\ missing = {} /\ last.token = SLACK_RETRO_TOKEN
    /\ last.response_type = "ephemeral"
    /\ last.action = help
    /\ store # <<>>

\* Whether this step is a request received (not the create call of an
\* earlier one) that asks to record the item the latest request asked for.
SameItemAgain ==
    /\ last.done /\ In(last.action, CATEGORY_CMDS)
    /\ ~swept
    /\ last' # last
    /\ \A t \in Slots : pending[t].busy => pending'[t].busy
    /\ last'.action = last.action
    /\ Lower(last'.params) = Lower(last.params)

RepliedAlreadyAdded ==
    /\ last'.done
    /\ last'.text = Text(MsgAlreadyAdded, <<>>)
    /\ last'.calls = <<"get">>
    /\ store' = store

\* C3 as stated: the second of two consecutive requests for the same
\* category and case-normalized object replies "already been added", issues
\* no create call and leaves the store as it was.
C3_SecondIsAlreadyAdded == [][SameItemAgain => RepliedAlreadyAdded]_vars

\* C3, amended: the same, when the first request stored the item or found it
\* stored (it replied "New retrospective item:" or "already been added").
C3_SecondIsAlreadyAddedOnceStored ==
    [][(SameItemAgain /\ last.text.msg \in {MsgNewItem, MsgAlreadyAdded})
           => RepliedAlreadyAdded]_vars

C3_Witness ==
    /\ last.done /\ last.text.msg = MsgAlreadyAdded
    /\ last.params = OK
    /\ ~swept
    /\ \E i \in 1..Len(store) : Unreviewed(i) /\ store[i].fields.Object = Capitalize(ok)
    /\ \E i \in 1..Len(store) : ~Unreviewed(i)

\* C4: a category action whose object, lower-cased, is a keyword returns the
\* reserved-term message and makes no store call, for every category and
\* every letter-casing of the keyword.
C4_ReservedTermRejected ==
    (In(last.action, CATEGORY_CMDS) /\ In(Lower(last.params), ALL_CMDS)) =>
        /\ last.done
        /\ last.status = 200
        /\ last.text = Text(MsgReserved, last.params)
        /\ last.calls = <<>>
        /\ ~last.spawned

C4_Witness ==
    /\ last.action = try
    /\ last.params = <<"l","I","s","T">>
    /\ last.text.msg = MsgReserved
    /\ store # <<>>

CompletionMessages == { MsgMarkedAsReviewed, MsgMarkedAsReviewed \o MsgRemaining }

\* C5: when the sweep's first fetch was not empty, the follow-up it posts is
\* 'in_channel', its text is a non-empty message saying the items were
\* marked as reviewed, and its attachments are those of the re-fetched view.
C5_FollowUpAfterMarking ==
    \A u \in SweepIds :
        (sweeps[u].pc = "done" /\ sweeps[u].fetched # <<>>) =>
            /\ Len(sweeps[u].posts) = 1
            /\ sweeps[u].posts[1].response_type = "in_channel"
            /\ sweeps[u].posts[1].text # ""
            /\ sweeps[u].posts[1].text \in CompletionMessages
            /\ sweeps[u].posts[1].attachments =
                   GetRetrospectiveItemsAttachments(RemainingItems(u))

\* C6: 'new' without parameter is acknowledged without a store call on the
\* request path, whatever the sweep does later, and the sweep it starts
\* ends having posted exactly one follow-up to that request's callback URL.
C6_AcknowledgedThenOneFollowUp ==
    /\ [][/\ (last.text.msg = MsgMarking =>
                /\ last.action = new /\ last.params = <<>>
                /\ last.done /\ last.status = 200 /\ last.spawned
                /\ last.calls = <<>>)'
          /\ ((In(last.action, NEW_CMDS) /\ last.params = <<>>) =>
                last.text = Text(MsgMarking, <<>>))'
          /\ (last' # last /\ last'.text.msg = MsgMarking) =>
                /\ store' = store
                /\ \E u \in SweepIds :
                      /\ sweeps[u].pc \in {"idle", "done"}
                      /\ sweeps' = [sweeps EXCEPT ![u] =
                                        [IdleSweep EXCEPT !.pc = "fetch"]]
          /\ (\A u \in SweepIds :
                /\ Len(sweeps[u].posts) <= 1
                /\ sweeps[u].pc = "done" => Len(sweeps[u].posts) = 1)'
         ]_vars
    /\ \A u \in SweepIds :
          (sweeps[u].pc = "fetch") ~>
              (sweeps[u].pc = "done" /\ Len(sweeps[u].posts) = 1)

C6_Witness ==
    /\ last.text.msg = MsgMarking
    /\ \E u \in SweepIds :
          /\ sweeps[u].pc = "done"
          /\ sweeps[u].fetched # <<>>
          /\ Len(sweeps[u].posts) = 1

\* C7: when the sweep's first fetch returns no items, it makes no update
\* call and no second fetch, and posts one follow-up saying the items were
\* already reviewed, without attachments.
C7_NothingToReview ==
    \A u \in SweepIds :
        (sweeps[u].pc \in {"update", "refetch", "post", "done"}
            /\ sweeps[u].fetched = <<>>) =>
            /\ sweeps[u].pc = "done"
            /\ sweeps[u].calls = <<"get">>
            /\ Len(sweeps[u].posts) = 1
            /\ sweeps[u].posts[1].text = MsgAlreadyReviewed
            /\ sweeps[u].posts[1].response_type = "in_channel"
            /\ "attachments" \notin DOMAIN sweeps[u].posts[1]

C7_Witness ==
    /\ \E u \in SweepIds : sweeps[u].pc = "done" /\ sweeps[u].fetched = <<>>
    /\ Len(store) > 0
    /\ \A i \in 1..Len(store) : ~Unreviewed(i)

\* C8: with configuration present, a request whose token is not the
\* configured secret is answered 401, and nothing is parsed, no store call
\* is made, no item is written and no sweep is started.
C8_UnauthorizedDoesNothing ==
    [][(missing = {} /\ last' # last /\ last'.token # SLACK_RETRO_TOKEN) =>
          /\ last'.done
          /\ last'.status = 401
          /\ last'.action = NoAction
          /\ last'.calls = <<>>
          /\ ~last'.spawned
          /\ UNCHANGED <<store, pending, sweeps>>]_vars

C8_Witness ==
    /\ missing = {}
    /\ last.token = "wrong"
    /\ last.status = 401
    /\ store # <<>>

\* The categories in ascending order of name, and the colour of each.
CategoriesAscending == <<bad, good, try>>
ExpectedColor(category) ==
    IF category = good THEN "good" ELSE IF category = bad THEN "danger" ELSE "warning"

\* The categories present in the input, ascending.
CategoriesPresent ==
    SelectSeq(CategoriesAscending,
              LAMBDA c : \E i \in 1..Len(fmtIn) : fmtIn[i].fields.Category = c)

\* The objects of one category, in the order of the input.
ObjectsOf(category) ==
    LET items == SelectSeq(fmtIn, LAMBDA item : item.fields.Category = category)
    IN  [i \in 1..Len(items) |-> items[i].fields.Object]

\* The bulleted lines of an attachment text, split at the blank lines.
RECURSIVE BulletLines(_)
BulletLines(text) ==
    IF text = <<>> THEN <<>>
    ELSE IF \E i \in 1..(Len(text) - 1) : text[i] = "\n" /\ text[i + 1] = "\n"
    THEN LET k == CHOOSE i \in 1..(Len(text) - 1) :
                      /\ text[i] = "\n" /\ text[i + 1] = "\n"
                      /\ \A j \in 1..(i - 1) : ~(text[j] = "\n" /\ text[j + 1] = "\n")
         IN  <<SubSeq(text, 1, k - 1)>> \o BulletLines(SubSeq(text, k + 2, Len(text)))
    ELSE <<text>>

\* C9: for items of categories good, bad and try, the formatter returns one
\* attachment per category present, in ascending order of category name
\* (bad, good, try), each listing its items in the order of the input, with
\* the colours good -> 'good', bad -> 'danger', try -> 'warning'.
C9_OneAttachmentPerCategory ==
    fmtDone =>
        /\ Len(fmtOut) = Len(CategoriesPresent)
        /\ \A g \in 1..Len(fmtOut) :
              LET category == CategoriesPresent[g]
                  lines == BulletLines(fmtOut[g].text)
              IN  /\ fmtOut[g].color = ExpectedColor(category)
                  /\ Lower(fmtOut[g].title) = category
                  /\ Len(lines) = Len(ObjectsOf(category))
                  /\ \A i \in 1..Len(lines) :
                        lines[i] = <<Bullet, " ">> \o ObjectsOf(category)[i]

C9_Witness ==
    /\ fmtDone
    /\ Len(fmtIn) = 4
    /\ [i \in 1..4 |-> fmtIn[i].fields.Category] = <<try, good, bad, good>>
    /\ fmtIn[2].fields.Object # fmtIn[4].fields.Object
    /\ Len(fmtOut) = 3

FieldsKept(i) ==
    /\ store'[i].id = store[i].id
    /\ store'[i].fields.Category = store[i].fields.Category
    /\ store'[i].fields.Object = store[i].fields.Object
    /\ store'[i].fields.Creator = store[i].fields.Creator
    /\ store'[i].fields.CreatedAt = store[i].fields.CreatedAt

ReadOnlyMessages ==
    { MsgItems, MsgNoItems, MsgHelp, MsgOops, MsgReserved, MsgAlreadyAdded }

\* C10: no step removes an item or changes the category, object, creator or
\* creation time of one. The store changes only by a category action that
\* succeeds appending one unreviewed item, and by the sweep setting
\* reviewedAt; list, help, new with a parameter, a rejected reserved term
\* and a detected duplicate leave it as it was.
C10_StoreFrame ==
    [][/\ Len(store') >= Len(store)
       /\ \A i \in 1..Len(store) : FieldsKept(i)
       /\ Len(store') > Len(store) =>
             /\ Len(store') = Len(store) + 1
             /\ store'[Len(store')].fields.ReviewedAt = NotReviewed
             /\ last'.done /\ last'.text.msg = MsgNewItem
             /\ In(last'.action, CATEGORY_CMDS)
             /\ store'[Len(store')].fields.Category = last'.action
             /\ sweeps' = sweeps
       /\ \A i \in 1..Len(store) :
             store'[i].fields.ReviewedAt # store[i].fields.ReviewedAt =>
                 /\ store'[i].fields.ReviewedAt # NotReviewed
                 /\ last' = last
                 /\ \E u \in SweepIds :
                       /\ sweeps[u].pc = "update"
                       /\ sweeps[u].fetched[sweeps[u].idx] = i
                       /\ sweeps'[u].idx = sweeps[u].idx + 1
       /\ (last' # last /\ last'.text.msg \in ReadOnlyMessages) => store' = store
      ]_vars

C10_Witness ==
    /\ Len(store) = 2
    /\ store[1].fields.Creator # store[2].fields.Creator
    /\ store[1].fields.CreatedAt # store[2].fields.CreatedAt
    /\ ~Unreviewed(1) /\ Unreviewed(2)
    /\ last.text.msg = MsgAlreadyAdded

====
